---- MODULE Spec2Model ----
(***************************************************************************)
(* Health scoring of src/system_monitor.py: the provider read              *)
(* (SystemMonitor.get_performance_metrics), the scorer                     *)
(* (SystemMonitor.get_system_health_score), the recommendation mapping     *)
(* (SystemMonitor.get_recommendations) and the two callers that display an *)
(* assessment (demo and choice "9" of interactive_mode).                   *)
(*                                                                         *)
(* Python values are represented as follows.  A dict or a dataclass        *)
(* instance is a record, a list is a sequence, a str is a string.  None is *)
(* the record None and an Optional[float] that is present is Float(v), so  *)
(* that every value a variable can hold is a record.  Percentages and      *)
(* temperatures are floats in the program and integers here: the scorer    *)
(* only tests x > t against integer thresholds t, and x > t holds exactly  *)
(* if ceil(x) > t, so a float is scored like its ceiling.  The value sets  *)
(* below hold every threshold together with its neighbours on both sides,  *)
(* and values below 0 and above 100.  The fields network_io, load_average  *)
(* and fan_speed of PerformanceMetrics are never read by the scorer and    *)
(* are left out of the snapshot record.  The condition of the host is      *)
(* drawn once, in Init: every call of a behaviour reads the same host.     *)
(***************************************************************************)
EXTENDS Integers, Sequences, FiniteSets, TLC

VARIABLES
    host,       \* what psutil reports on this host: a reading, or an exception
    metrics,    \* what the last get_performance_metrics() call of the scorer returned
    health,     \* what the last get_system_health_score() call returned
    error,      \* the exception that escaped to the top level, or "none"
    monitoring, \* self.monitoring
    pc,         \* where the monitor_system call is
    now,        \* the clock, in seconds since the latest monitor_system call was entered
    duration,   \* argument of the latest monitor_system call
    interval,   \* argument of the latest monitor_system call
    start_time, \* local start_time of monitor_system
    data_points,\* local data_points of monitor_system; the returned list at pc = "returned"
    ticks,      \* history: the provider reads of this run that returned, in order:
                \* when each started (from) and returned (at), and what it returned
    started,    \* history: how many provider reads this run has started
    sleeps,     \* history: how many time.sleep calls of this run have returned
    cancel,     \* history: the cancel signals this run was sent
    scorings,   \* history: every (snapshot, assessment) pair the scorer has produced,
                \* with the value self.monitoring had then
    previous,   \* history: the list the call before this one returned, as its caller
                \* holds it, in the behaviours that record it; empty otherwise
    other       \* where a second monitor_system call on this SystemMonitor, made by
                \* another thread, is: "idle" or "running"

scorer_vars == << metrics, health >>

run_vars == << monitoring, pc, now, duration, interval, start_time, data_points,
               ticks, started, sleeps, cancel, previous, other >>

vars == << host, metrics, health, error, monitoring, pc, now, duration, interval,
           start_time, data_points, ticks, started, sleeps, cancel, scorings,
           previous, other >>

(***************************************************************************)
(* Bounds of the model: the sampled metric values.                         *)
(***************************************************************************)
\* how many integers on each side of a threshold are sampled
Margin == 1
\* how far outside 0..100 the out-of-range samples lie
Excess == 50
\* the longest a provider read takes, in seconds
MaxReadTime == 2
\* the most provider reads of one monitor_system call that are followed
MaxTicks == 3

(***************************************************************************)
(* Thresholds and penalties of get_system_health_score.                    *)
(***************************************************************************)
CpuHigh == 80
CpuModerate == 60
MemoryCritical == 90
MemoryHigh == 80
DiskCritical == 95
DiskHigh == 85
TemperatureHigh == 80

(***************************************************************************)
(* Python values.                                                          *)
(***************************************************************************)
None == [none |-> TRUE]

Float(v) == [float |-> v]

\* bool(x) for an Optional[float]: None and 0.0 are falsy
Truthy(x) == x # None /\ x.float # 0

\* max(a, b)
Max(a, b) == IF a >= b THEN a ELSE b

(***************************************************************************)
(* The characters of the str values the program searches.                  *)
(***************************************************************************)
Chars(s) ==
    CASE s = "High CPU usage" ->
           << "H", "i", "g", "h", " ", "C", "P", "U", " ", "u", "s", "a", "g", "e" >>
      [] s = "Moderate CPU usage" ->
           << "M", "o", "d", "e", "r", "a", "t", "e", " ", "C", "P", "U", " ", "u", "s", "a", "g", "e" >>
      [] s = "Critical memory usage" ->
           << "C", "r", "i", "t", "i", "c", "a", "l", " ", "m", "e", "m", "o", "r", "y", " ", "u", "s", "a", "g", "e" >>
      [] s = "High memory usage" ->
           << "H", "i", "g", "h", " ", "m", "e", "m", "o", "r", "y", " ", "u", "s", "a", "g", "e" >>
      [] s = "Critical disk usage" ->
           << "C", "r", "i", "t", "i", "c", "a", "l", " ", "d", "i", "s", "k", " ", "u", "s", "a", "g", "e" >>
      [] s = "High disk usage" ->
           << "H", "i", "g", "h", " ", "d", "i", "s", "k", " ", "u", "s", "a", "g", "e" >>
      [] s = "High CPU temperature" ->
           << "H", "i", "g", "h", " ", "C", "P", "U", " ", "t", "e", "m", "p", "e", "r", "a", "t", "u", "r", "e" >>
      [] s = "Unable to get metrics" ->
           << "U", "n", "a", "b", "l", "e", " ", "t", "o", " ", "g", "e", "t", " ", "m", "e", "t", "r", "i", "c", "s" >>
      [] s = "CPU" ->
           << "C", "P", "U" >>
      [] s = "memory" ->
           << "m", "e", "m", "o", "r", "y" >>
      [] s = "disk" ->
           << "d", "i", "s", "k" >>
      [] s = "temperature" ->
           << "t", "e", "m", "p", "e", "r", "a", "t", "u", "r", "e" >>

\* needle in hay, for two str values: a case-sensitive substring search
In(needle, hay) ==
    LET n == Chars(needle)
        h == Chars(hay)
    IN  \E i \in 1..(Len(h) - Len(n) + 1) : SubSeq(h, i, i + Len(n) - 1) = n

(***************************************************************************)
(* The provider.                                                           *)
(***************************************************************************)
Around(t) == (t - Margin)..(t + Margin)

CpuValues == Around(CpuModerate) \cup Around(CpuHigh) \cup {30, 85}
                 \cup {0 - Excess, 0, 100, 100 + Excess}

MemoryValues == Around(MemoryHigh) \cup Around(MemoryCritical) \cup {50, 95}
                    \cup {0 - Excess, 100 + Excess}

DiskValues == Around(DiskHigh) \cup Around(DiskCritical) \cup {50, 97}
                  \cup {0 - Excess, 100 + Excess}

\* what get_cpu_temperature returns: None without a sensor, else a reading
TemperatureValues ==
    {None} \cup { Float(t) : t \in Around(TemperatureHigh) \cup {0 - Excess, 0, 85, 100 + Excess} }

\* the dataclass PerformanceMetrics, restricted to the fields the scorer reads
PerformanceMetrics ==
    [ cpu_percent : CpuValues, memory_percent : MemoryValues,
      disk_percent : DiskValues, temperature : TemperatureValues ]

\* a psutil call of get_performance_metrics raising
ProviderRaises == [raised |-> "Exception"]

\* what the body of the try block of get_performance_metrics can do
ProviderOutcomes == PerformanceMetrics \cup {ProviderRaises}

\* get_performance_metrics with an except clause that returns an all-zero
\* reading instead of None
get_performance_metrics_zeroed(outcome) ==
    IF outcome = ProviderRaises
    THEN [ cpu_percent |-> 0, memory_percent |-> 0, disk_percent |-> 0,
           temperature |-> None ]
    ELSE outcome

\* get_performance_metrics: the except clause turns any exception into None
get_performance_metrics(outcome) ==
    IF outcome = ProviderRaises THEN None ELSE outcome

(***************************************************************************)
(* get_system_health_score.  The running pair (score, issues) of the       *)
(* method is the record acc; each rule is one if/elif statement of it.     *)
(***************************************************************************)
\* Penalise with score += penalty
PenaliseAdding(acc, penalty, label) ==
    [ score |-> acc.score + penalty, issues |-> Append(acc.issues, label) ]

\* score -= penalty; issues.append(label)
Penalise(acc, penalty, label) ==
    [ score |-> acc.score - penalty, issues |-> Append(acc.issues, label) ]

\* CpuRule with a second if in place of the elif
CpuRuleTwoIfs(acc, m) ==
    LET high == IF m.cpu_percent > CpuHigh
                THEN Penalise(acc, 20, "High CPU usage") ELSE acc
    IN  IF m.cpu_percent > CpuModerate
        THEN Penalise(high, 10, "Moderate CPU usage") ELSE high

\* CpuRule with the two penalties exchanged
CpuRuleSwappedPenalties(acc, m) ==
    IF m.cpu_percent > CpuHigh THEN Penalise(acc, 10, "High CPU usage")
    ELSE IF m.cpu_percent > CpuModerate THEN Penalise(acc, 20, "Moderate CPU usage")
    ELSE acc

\* CpuRule with its two tests in the other order
CpuRuleModerateFirst(acc, m) ==
    IF m.cpu_percent > CpuModerate THEN Penalise(acc, 10, "Moderate CPU usage")
    ELSE IF m.cpu_percent > CpuHigh THEN Penalise(acc, 20, "High CPU usage")
    ELSE acc

\* CPU usage penalty
CpuRule(acc, m) ==
    IF m.cpu_percent > CpuHigh THEN Penalise(acc, 20, "High CPU usage")
    ELSE IF m.cpu_percent > CpuModerate THEN Penalise(acc, 10, "Moderate CPU usage")
    ELSE acc

\* MemoryRule with >= in place of >
MemoryRuleInclusive(acc, m) ==
    IF m.memory_percent >= MemoryCritical THEN Penalise(acc, 25, "Critical memory usage")
    ELSE IF m.memory_percent >= MemoryHigh THEN Penalise(acc, 15, "High memory usage")
    ELSE acc

\* MemoryRule with its two tests in the other order
MemoryRuleHighFirst(acc, m) ==
    IF m.memory_percent > MemoryHigh THEN Penalise(acc, 15, "High memory usage")
    ELSE IF m.memory_percent > MemoryCritical THEN Penalise(acc, 25, "Critical memory usage")
    ELSE acc

\* Memory usage penalty
MemoryRule(acc, m) ==
    IF m.memory_percent > MemoryCritical THEN Penalise(acc, 25, "Critical memory usage")
    ELSE IF m.memory_percent > MemoryHigh THEN Penalise(acc, 15, "High memory usage")
    ELSE acc

\* Disk usage penalty
DiskRule(acc, m) ==
    IF m.disk_percent > DiskCritical THEN Penalise(acc, 30, "Critical disk usage")
    ELSE IF m.disk_percent > DiskHigh THEN Penalise(acc, 15, "High disk usage")
    ELSE acc

\* TemperatureRule taking a missing reading for a hot one
TemperatureRuleMissingIsHot(acc, m) ==
    IF m.temperature = None \/ m.temperature.float > TemperatureHigh
    THEN Penalise(acc, 20, "High CPU temperature")
    ELSE acc

\* TemperatureRule with a penalty of 25
TemperatureRuleHeavier(acc, m) ==
    IF Truthy(m.temperature) /\ m.temperature.float > TemperatureHigh
    THEN Penalise(acc, 25, "High CPU temperature")
    ELSE acc

\* Temperature penalty
TemperatureRule(acc, m) ==
    IF Truthy(m.temperature) /\ m.temperature.float > TemperatureHigh
    THEN Penalise(acc, 20, "High CPU temperature")
    ELSE acc

\* DetermineStatus with > in place of >=
DetermineStatusStrict(score) ==
    IF score > 80 THEN "Excellent"
    ELSE IF score > 60 THEN "Good"
    ELSE IF score > 40 THEN "Fair"
    ELSE IF score > 20 THEN "Poor"
    ELSE "Critical"

\* Determine status
DetermineStatus(score) ==
    IF score >= 80 THEN "Excellent"
    ELSE IF score >= 60 THEN "Good"
    ELSE IF score >= 40 THEN "Fair"
    ELSE IF score >= 20 THEN "Poor"
    ELSE "Critical"

\* the recommendations one issue appends: four independent if statements
RecommendationsFor(issue) ==
    (IF In("CPU", issue)
     THEN << "Consider closing unnecessary applications or upgrading CPU" >> ELSE << >>)
    \o (IF In("memory", issue)
        THEN << "Close unused applications or consider adding more RAM" >> ELSE << >>)
    \o (IF In("disk", issue)
        THEN << "Free up disk space by deleting unnecessary files" >> ELSE << >>)
    \o (IF In("temperature", issue)
        THEN << "Check cooling system and clean dust from fans" >> ELSE << >>)

\* get_recommendations: the for loop over issues
RECURSIVE get_recommendations(_)
get_recommendations(issues) ==
    IF issues = << >> THEN << >>
    ELSE RecommendationsFor(Head(issues)) \o get_recommendations(Tail(issues))

\* the assessment returned when the provider read failed
Sentinel ==
    [ score |-> 0, status |-> "Unknown", issues |-> << "Unable to get metrics" >> ]

\* the assessment built from the final (score, issues) pair
Assessment(acc) ==
    [ score |-> Max(0, acc.score),
      status |-> DetermineStatus(acc.score),
      issues |-> acc.issues,
      recommendations |-> get_recommendations(acc.issues) ]

\* ApplyRules with the disk rule ahead of the memory rule
ApplyRulesDiskFirst(m) ==
    TemperatureRule(
        MemoryRule(DiskRule(CpuRule([ score |-> 100, issues |-> << >> ], m), m), m), m)

\* the (score, issues) pair after the four rules, in the order of the code
ApplyRules(m) ==
    TemperatureRule(
        DiskRule(MemoryRule(CpuRule([ score |-> 100, issues |-> << >> ], m), m), m), m)

\* get_system_health_score refusing to score while a monitor_system call runs
get_system_health_score_unless_monitoring(m) ==
    IF m = None \/ monitoring THEN Sentinel ELSE Assessment(ApplyRules(m))

\* get_system_health_score, given what its get_performance_metrics call returned
get_system_health_score(m) ==
    IF m = None THEN Sentinel ELSE Assessment(ApplyRules(m))

(***************************************************************************)
(* The callers.  Each reads keys of the returned dict; reading a key the   *)
(* dict lacks raises KeyError, which neither caller catches.               *)
(***************************************************************************)
\* the keys demo() reads from the assessment
DemoKeys == { "score", "status", "issues" }

\* the keys choice "9" of interactive_mode reads from the assessment
InteractiveKeys == { "score", "status", "issues", "recommendations" }

\* the exception raised while reading the given keys of dict d
ReadKeys(d, keys) ==
    IF keys \subseteq DOMAIN d THEN "none" ELSE "KeyError"

(***************************************************************************)
(* monitor_system.  One call is in progress at a time; pc is "idle" before *)
(* the first call, "check" at the while condition, "read" inside           *)
(* get_performance_metrics, "sleep" inside time.sleep, "returned" after    *)
(* the return and "raised" when an exception left the call.  The clock     *)
(* now is read relative to the entry of the call: the code uses only       *)
(* differences of time.time() values taken within one call, and orders     *)
(* timestamps only within one returned list.  A timestamp is the clock     *)
(* value at the append.  The statements between two blocking calls take    *)
(* no time; psutil.cpu_percent(interval=1) blocks for one second, so a     *)
(* read that succeeds takes at least that.                                 *)
(***************************************************************************)
\* the (duration, interval) pairs a caller passes
RunArgs ==
    { [ duration |-> 12, interval |-> 5 ], [ duration |-> 3, interval |-> 1 ],
      [ duration |-> 3, interval |-> 0 ],  [ duration |-> 1, interval |-> 0 ],
      [ duration |-> 0, interval |-> 5 ],
      [ duration |-> 0, interval |-> 0 ],  [ duration |-> 0 - 1, interval |-> 5 ],
      [ duration |-> 3, interval |-> 0 - 1 ], [ duration |-> 0 - 1, interval |-> 0 - 1 ] }

\* the readings of the host while it is being monitored
MonitorReadings ==
    { [ cpu_percent |-> 30, memory_percent |-> 50, disk_percent |-> 50,
        temperature |-> None ],
      [ cpu_percent |-> 85, memory_percent |-> 95, disk_percent |-> 97,
        temperature |-> Float(85) ] }

\* what the provider can do while the host is being monitored
MonitorOutcomes == MonitorReadings \cup {ProviderRaises}

\* ReadTimes with a cpu_percent call that does not block
ReadTimesNonBlocking(outcome) == 0..MaxReadTime

\* how long get_performance_metrics takes: a second or more in cpu_percent
\* when it succeeds, any time when a psutil call raises
ReadTimes(outcome) ==
    IF outcome = ProviderRaises THEN 0..MaxReadTime ELSE 1..MaxReadTime

\* DataPoint leaving out the temperature key when the snapshot has none
DataPointOmittingAbsentTemperature(m, t) ==
    IF m.temperature = None
    THEN [ timestamp |-> t, cpu_percent |-> m.cpu_percent,
           memory_percent |-> m.memory_percent, disk_percent |-> m.disk_percent ]
    ELSE [ timestamp |-> t, cpu_percent |-> m.cpu_percent,
           memory_percent |-> m.memory_percent, disk_percent |-> m.disk_percent,
           temperature |-> m.temperature ]

\* the dict appended for a snapshot m at clock value t
DataPoint(m, t) ==
    [ timestamp |-> t, cpu_percent |-> m.cpu_percent,
      memory_percent |-> m.memory_percent, disk_percent |-> m.disk_percent,
      temperature |-> m.temperature ]

\* AppendIfRead appending an all-zero data point for a failed read
AppendIfReadOrZero(points, m, t) ==
    IF m # None THEN Append(points, DataPoint(m, t))
    ELSE Append(points, [ timestamp |-> t, cpu_percent |-> 0, memory_percent |-> 0,
                          disk_percent |-> 0, temperature |-> None ])

\* AppendIfRead inserting the data point at the front of the list
AppendIfReadAtFront(points, m, t) ==
    IF m # None THEN << DataPoint(m, t) >> \o points ELSE points

\* if metrics: data_points.append({...})
AppendIfRead(points, m, t) ==
    IF m # None THEN Append(points, DataPoint(m, t)) ELSE points

\* LoopCondition without the test of the elapsed time
LoopConditionIgnoringDuration(flag, elapsed, d) == flag

\* LoopCondition without the test of self.monitoring
LoopConditionIgnoringFlag(flag, elapsed, d) == elapsed < d

\* LoopCondition with <= in place of <
LoopConditionInclusive(flag, elapsed, d) == flag /\ elapsed <= d

\* the while condition of monitor_system
LoopCondition(flag, elapsed, d) == flag /\ elapsed < d

\* what time.sleep(secs) does: it raises ValueError for a negative argument
SleepRaises(secs) == secs < 0

\* no cancel signal has been sent.  pending: one was sent since the last
\* call returned; before: one was pending when this call was entered;
\* during, at, started: the kind of the first one sent during this call,
\* where the call was then, and how many reads it had started
NoCancel ==
    [ pending |-> FALSE, before |-> FALSE, during |-> "none", at |-> "none",
      started |-> 0 ]

\* the history of cancel signals after one more, of the given kind
Signalled(kind) ==
    IF pc \in { "check", "read", "sleep" }
    THEN IF cancel.during = "none"
         THEN [ cancel EXCEPT !.during = kind, !.at = pc, !.started = started ]
         ELSE cancel
    ELSE [ cancel EXCEPT !.pending = TRUE ]

\* the state of a SystemMonitor after __init__, with no call made yet
Constructed ==
    /\ metrics = None
    /\ health = None
    /\ error = "none"
    /\ monitoring = FALSE
    /\ pc = "idle"
    /\ now = 0
    /\ duration = 0
    /\ interval = 0
    /\ start_time = 0
    /\ data_points = << >>
    /\ ticks = << >>
    /\ started = 0
    /\ sleeps = 0
    /\ cancel = NoCancel
    /\ scorings = { }
    /\ previous = << >>
    /\ other = "idle"

\* the host is in any condition; nothing has been read or scored yet
Init ==
    /\ host \in ProviderOutcomes
    /\ Constructed

\* the history of scorings after one more, made in the present monitor state
Logged(m, h) ==
    scorings \cup { [ metrics |-> m, health |-> h, monitoring |-> monitoring ] }

\* demo(): the SYSTEM HEALTH section
DemoHealth ==
    /\ error = "none"
    /\ metrics' = get_performance_metrics(host)
    /\ health' = get_system_health_score(metrics')
    /\ error' = ReadKeys(health', DemoKeys)
    /\ scorings' = Logged(metrics', health')
    /\ UNCHANGED << host, run_vars >>

\* interactive_mode(): choice "9", Check System Health
InteractiveHealth ==
    /\ error = "none"
    /\ metrics' = get_performance_metrics(host)
    /\ health' = get_system_health_score(metrics')
    /\ error' = ReadKeys(health', InteractiveKeys)
    /\ scorings' = Logged(metrics', health')
    /\ UNCHANGED << host, run_vars >>

Next ==
    \/ DemoHealth
    \/ InteractiveHealth

Spec == Init /\ [][Next]_vars

\* NewBuffer being the list the call before used
NewBufferIsOldBuffer == data_points

\* data_points = []
NewBuffer == << >>

\* monitor_system(d, i) is entered: lines 205-210
EnterRun ==
    /\ error = "none"
    /\ pc \in { "idle", "returned" }
    /\ \E args \in RunArgs :
         /\ duration' = args.duration
         /\ interval' = args.interval
    /\ monitoring' = TRUE
    /\ data_points' = NewBuffer
    /\ now' = 0
    /\ start_time' = now'
    /\ pc' = "check"
    /\ ticks' = << >>
    /\ started' = 0
    /\ sleeps' = 0
    /\ cancel' = [ NoCancel EXCEPT !.before = cancel.pending ]
    /\ UNCHANGED << host, scorer_vars, error, scorings, other >>

\* a caller enters monitor_system(d, i)
StartRun ==
    /\ EnterRun
    /\ UNCHANGED previous

\* a caller that still holds the list of its last call enters
\* monitor_system(3, 1): data = monitor.monitor_system(duration, interval)
StartRunHoldingList ==
    /\ EnterRun
    /\ duration' = 3 /\ interval' = 1
    /\ previous' = IF pc = "returned" THEN data_points ELSE previous

\* a second thread enters monitor_system on the same SystemMonitor: line 208
OtherRunEnters ==
    /\ error = "none"
    /\ other = "idle"
    /\ other' = "running"
    /\ monitoring' = TRUE
    /\ UNCHANGED << host, scorer_vars, error, pc, now, duration, interval, start_time,
                    data_points, ticks, started, sleeps, cancel, scorings, previous >>

\* the call of the second thread leaves its loop and returns: line 229
OtherRunReturns ==
    /\ error = "none"
    /\ other = "running"
    /\ other' = "idle"
    /\ monitoring' = FALSE
    /\ UNCHANGED << host, scorer_vars, error, pc, now, duration, interval, start_time,
                    data_points, ticks, started, sleeps, cancel, scorings, previous >>

\* the while condition is evaluated; when it fails, lines 229-230 run
LoopCheck ==
    /\ error = "none"
    /\ pc = "check"
    /\ started < MaxTicks \/ ~ LoopCondition(monitoring, now - start_time, duration)
    /\ IF LoopCondition(monitoring, now - start_time, duration)
       THEN /\ pc' = "read"
            /\ started' = started + 1
            /\ UNCHANGED monitoring
       ELSE /\ pc' = "returned"
            /\ monitoring' = FALSE
            /\ UNCHANGED started
    /\ UNCHANGED << host, scorer_vars, error, now, duration, interval, start_time,
                    data_points, ticks, sleeps, cancel, scorings, previous, other >>

\* get_performance_metrics() returns, and the data point is appended
Read ==
    /\ error = "none"
    /\ pc = "read"
    /\ \E dt \in ReadTimes(host) :
         /\ now' = now + dt
         /\ data_points' = AppendIfRead(data_points, get_performance_metrics(host), now')
         /\ ticks' = Append(ticks, [ from |-> now, at |-> now',
                                     read |-> get_performance_metrics(host) ])
    /\ pc' = "sleep"
    /\ UNCHANGED << host, scorer_vars, error, monitoring, duration, interval,
                    start_time, started, sleeps, cancel, scorings, previous, other >>

\* Sleep with a time.sleep that returns at once
SleepReturnsAtOnce ==
    /\ error = "none"
    /\ pc = "sleep"
    /\ pc' = "check"
    /\ sleeps' = sleeps + 1
    /\ UNCHANGED << host, scorer_vars, error, monitoring, now, duration, interval,
                    start_time, data_points, ticks, started, cancel, scorings, previous, other >>

\* time.sleep(interval) returns, or raises ValueError, which nothing catches
Sleep ==
    /\ error = "none"
    /\ pc = "sleep"
    /\ IF SleepRaises(interval)
       THEN /\ pc' = "raised"
            /\ error' = "ValueError"
            /\ UNCHANGED << now, sleeps >>
       ELSE /\ pc' = "check"
            /\ now' = now + interval
            /\ sleeps' = sleeps + 1
            /\ UNCHANGED error
    /\ UNCHANGED << host, scorer_vars, monitoring, duration, interval, start_time,
                    data_points, ticks, started, cancel, scorings, previous, other >>

\* Ctrl+C inside the try block: the except clause, then lines 229-230
Interrupt ==
    /\ error = "none"
    /\ pc \in { "check", "read", "sleep" }
    /\ cancel' = Signalled("interrupt")
    /\ pc' = "returned"
    /\ monitoring' = FALSE
    /\ UNCHANGED << host, scorer_vars, error, now, duration, interval, start_time,
                    data_points, ticks, started, sleeps, scorings, previous, other >>

\* another thread clears the flag: monitor.monitoring = False
ClearFlag ==
    /\ error = "none"
    /\ cancel' = Signalled("flag")
    /\ monitoring' = FALSE
    /\ UNCHANGED << host, scorer_vars, error, pc, now, duration, interval, start_time,
                    data_points, ticks, started, sleeps, scorings, previous, other >>

\* the load of the host changes
HostChanges ==
    /\ error = "none"
    /\ host' \in MonitorOutcomes \ {host}
    /\ UNCHANGED << scorer_vars, error, run_vars, scorings >>

\* a host that is being monitored
MonitorInit ==
    /\ host \in MonitorOutcomes
    /\ Constructed

\* monitor_system calls on a host whose load changes and whose provider fails
MonitorNext ==
    \/ StartRun
    \/ LoopCheck
    \/ Read
    \/ Sleep
    \/ Interrupt
    \/ ClearFlag
    \/ HostChanges

MonitorSpec == MonitorInit /\ [][MonitorNext]_vars

\* monitor_system(d, i) is entered for a run of one second
StartShortRun ==
    /\ StartRun
    /\ duration' = 1

\* scorer calls between and during short monitor_system calls
HistoryNext ==
    \/ StartShortRun
    \/ LoopCheck
    \/ Read
    \/ Sleep
    \/ Interrupt
    \/ ClearFlag
    \/ HostChanges
    \/ DemoHealth
    \/ InteractiveHealth

HistorySpec == MonitorInit /\ [][HistoryNext]_vars

\* the calls of a caller that holds on to the list of its last call
ListNext ==
    \/ StartRunHoldingList
    \/ LoopCheck
    \/ Read
    \/ Sleep
    \/ Interrupt
    \/ ClearFlag
    \/ HostChanges

ListSpec == MonitorInit /\ [][ListNext]_vars

\* monitor_system calls of two threads on one SystemMonitor
OverlapNext ==
    \/ StartRun
    \/ LoopCheck
    \/ Read
    \/ Sleep
    \/ Interrupt
    \/ ClearFlag
    \/ HostChanges
    \/ OtherRunEnters
    \/ OtherRunReturns

OverlapSpec == MonitorInit /\ [][OverlapNext]_vars

\* a provider read during which the clock advances
TimedRead ==
    /\ Read
    /\ now' > now

\* monitor_system calls in which no read takes less than a second
LiveNext ==
    \/ StartRun
    \/ LoopCheck
    \/ TimedRead
    \/ Sleep
    \/ Interrupt
    \/ ClearFlag
    \/ HostChanges

\* the thread that runs monitor_system keeps running: the condition is
\* evaluated, every provider read returns and every sleep ends
LiveSpec ==
    /\ MonitorInit
    /\ [][LiveNext]_vars
    /\ WF_vars(LoopCheck)
    /\ WF_vars(TimedRead)
    /\ WF_vars(Sleep)

(***************************************************************************)
(* Properties.                                                             *)
(***************************************************************************)
\* an assessment has been returned
Returned == health # None

\* the returned assessment was computed from an obtained snapshot
Scored == health # None /\ metrics # None

\* the elements of a list
Range(seq) == { seq[i] : i \in 1..Len(seq) }

\* a temperature reading is present and above 80
Hot(m) == m.temperature # None /\ m.temperature.float > 80

\* C1: for every snapshot the scorer can receive, values outside 0..100
\* included, the returned score is an integer between 0 and 100.
C1_ScoreInRange ==
    Scored => health.score \in Int /\ 0 <= health.score /\ health.score <= 100

\* C1 witness: a snapshot with every value above 100 has been scored.
C1_Witness ==
    /\ Scored
    /\ metrics.cpu_percent > 100 /\ metrics.memory_percent > 100
    /\ metrics.disk_percent > 100 /\ Hot(metrics) /\ metrics.temperature.float > 100
    /\ health.score = 5

\* C2: the status of an assessment computed from a snapshot is exactly the
\* band of the returned (clamped) score.
C2_StatusIsBandOfScore ==
    Scored =>
        /\ (health.status = "Excellent") <=> (health.score >= 80)
        /\ (health.status = "Good") <=> (60 <= health.score /\ health.score < 80)
        /\ (health.status = "Fair") <=> (40 <= health.score /\ health.score < 60)
        /\ (health.status = "Poor") <=> (20 <= health.score /\ health.score < 40)
        /\ (health.status = "Critical") <=> (health.score < 20)

\* C2 witness: the lowest score has been returned, with status Critical.
C2_Witness ==
    Scored /\ health.score < 20 /\ health.status = "Critical"

\* C3: the score is 100 minus the penalties of the rules that fire, with the
\* band edges of the table.
C3_ScoreIsHundredMinusPenalties ==
    Scored =>
        LET m == metrics
            cpu == IF m.cpu_percent > 80 THEN 20
                   ELSE IF 60 < m.cpu_percent /\ m.cpu_percent <= 80 THEN 10 ELSE 0
            memory == IF m.memory_percent > 90 THEN 25
                      ELSE IF 80 < m.memory_percent /\ m.memory_percent <= 90 THEN 15 ELSE 0
            disk == IF m.disk_percent > 95 THEN 30
                    ELSE IF 85 < m.disk_percent /\ m.disk_percent <= 95 THEN 15 ELSE 0
            temperature == IF Hot(m) THEN 20 ELSE 0
        IN  health.score = 100 - (cpu + memory + disk + temperature)

\* C3 witness: a snapshot with every value on an upper band edge (cpu 80,
\* memory 90, disk 95, temperature 80) has been scored 100 - 10 - 15 - 15.
C3_Witness ==
    /\ Scored
    /\ metrics.cpu_percent = 80 /\ metrics.memory_percent = 90
    /\ metrics.disk_percent = 95 /\ metrics.temperature = Float(80)
    /\ health.score = 60

\* the issues list is the CPU issue, the memory issue, the disk issue and the
\* temperature issue, in that order, each present exactly if its rule fired
IssuesInRuleOrder ==
    \E cpu \in { << >>, << "High CPU usage" >>, << "Moderate CPU usage" >> },
       memory \in { << >>, << "Critical memory usage" >>, << "High memory usage" >> },
       disk \in { << >>, << "Critical disk usage" >>, << "High disk usage" >> },
       temperature \in { << >>, << "High CPU temperature" >> } :
        /\ health.issues = cpu \o memory \o disk \o temperature
        /\ metrics # None =>
              /\ (cpu # << >>) <=> (metrics.cpu_percent > 60)
              /\ (memory # << >>) <=> (metrics.memory_percent > 80)
              /\ (disk # << >>) <=> (metrics.disk_percent > 85)
              /\ (temperature # << >>) <=> Hot(metrics)

\* C4, as stated: the issues list of every assessment is in rule order, has
\* at most 4 entries, and its labels are among the seven of the penalty table.
C4_AsStated ==
    Returned =>
        /\ IssuesInRuleOrder
        /\ Len(health.issues) <= 4
        /\ Range(health.issues) \subseteq
              { "High CPU usage", "Moderate CPU usage", "Critical memory usage",
                "High memory usage", "Critical disk usage", "High disk usage",
                "High CPU temperature" }

\* C4, amended: the same, of every assessment computed from an obtained
\* snapshot.
C4_IssuesInRuleOrder ==
    Scored =>
        /\ IssuesInRuleOrder
        /\ Len(health.issues) <= 4
        /\ Range(health.issues) \subseteq
              { "High CPU usage", "Moderate CPU usage", "Critical memory usage",
                "High memory usage", "Critical disk usage", "High disk usage",
                "High CPU temperature" }

\* C4 witness: an assessment with four issues has been returned.
C4_Witness ==
    Scored /\ Len(health.issues) = 4

\* C5: no assessment holds both labels of one category.
C5_OneLabelPerCategory ==
    Returned =>
        /\ ~ ({ "High CPU usage", "Moderate CPU usage" } \subseteq Range(health.issues))
        /\ ~ ({ "Critical memory usage", "High memory usage" } \subseteq Range(health.issues))
        /\ ~ ({ "Critical disk usage", "High disk usage" } \subseteq Range(health.issues))

\* C5 witness: the temperature issue accompanies an issue of each category.
C5_Witness ==
    /\ Scored
    /\ { "Moderate CPU usage", "High memory usage", "Critical disk usage",
         "High CPU temperature" } \subseteq Range(health.issues)

\* the recommendation of the category an issue label belongs to
CategoryRecommendation(issue) ==
    CASE issue \in { "High CPU usage", "Moderate CPU usage" } ->
           "Consider closing unnecessary applications or upgrading CPU"
      [] issue \in { "Critical memory usage", "High memory usage" } ->
           "Close unused applications or consider adding more RAM"
      [] issue \in { "Critical disk usage", "High disk usage" } ->
           "Free up disk space by deleting unnecessary files"
      [] issue = "High CPU temperature" ->
           "Check cooling system and clean dust from fans"

\* C6: the recommendations list has one entry per issue, the i-th being the
\* recommendation of the i-th issue's category.
C6_OneRecommendationPerIssue ==
    Scored =>
        /\ Len(health.recommendations) = Len(health.issues)
        /\ \A i \in 1..Len(health.issues) :
              health.recommendations[i] = CategoryRecommendation(health.issues[i])

\* the snapshot {cpu=85, memory=50, disk=50, temperature absent}
Scenario1 ==
    [ cpu_percent |-> 85, memory_percent |-> 50, disk_percent |-> 50,
      temperature |-> None ]

\* C7, as stated: scoring Scenario1 yields score 80 with status Good.
C7_AsStated ==
    (Returned /\ metrics = Scenario1) =>
        health = [ score |-> 80, status |-> "Good",
                   issues |-> << "High CPU usage" >>,
                   recommendations |->
                     << "Consider closing unnecessary applications or upgrading CPU" >> ]

\* C7, amended: scoring Scenario1 yields score 80 with status Excellent, the
\* one issue High CPU usage and the one CPU recommendation.
C7_Scenario1 ==
    (Returned /\ metrics = Scenario1) =>
        health = [ score |-> 80, status |-> "Excellent",
                   issues |-> << "High CPU usage" >>,
                   recommendations |->
                     << "Consider closing unnecessary applications or upgrading CPU" >> ]

\* C7 witness: Scenario1 has been scored.
C7_Witness ==
    Returned /\ metrics = Scenario1 /\ health.score = 80

\* the snapshot {cpu=30, memory=95, disk=97, temperature=85}
Scenario2 ==
    [ cpu_percent |-> 30, memory_percent |-> 95, disk_percent |-> 97,
      temperature |-> Float(85) ]

\* C8: scoring Scenario2 yields score 25, status Poor and the issues Critical
\* memory usage, Critical disk usage, High CPU temperature, in that order.
C8_Scenario2 ==
    (Returned /\ metrics = Scenario2) =>
        /\ health.score = 25
        /\ health.status = "Poor"
        /\ health.issues = << "Critical memory usage", "Critical disk usage",
                              "High CPU temperature" >>

\* C8 witness: Scenario2 has been scored.
C8_Witness ==
    Returned /\ metrics = Scenario2 /\ Len(health.issues) = 3

\* C9: when the provider read fails, the scorer returns the sentinel
\* assessment (score 0, status Unknown, the single issue Unable to get
\* metrics): no snapshot was obtained and no penalty rule added an issue.
C9_SentinelOnFailure ==
    (Returned /\ host = ProviderRaises) =>
        /\ metrics = None
        /\ health.score = 0
        /\ health.status = "Unknown"
        /\ health.issues = << "Unable to get metrics" >>

\* C9 witness: the provider failed and the scorer has returned; the caller
\* that reads score, status and issues met no exception.
C9_Witness ==
    Returned /\ host = ProviderRaises /\ health.score = 0 /\ error = "none"

\* C10: every returned assessment, on the success path and on the failure
\* path alike, has exactly the fields score, status, issues, recommendations
\* and a status among the five bands, so that no caller finds a field missing.
C10_AssessmentShape ==
    Returned =>
        /\ DOMAIN health = { "score", "status", "issues", "recommendations" }
        /\ health.status \in { "Excellent", "Good", "Fair", "Poor", "Critical" }
        /\ error = "none"

Worse(m) ==
    { [ m EXCEPT !.cpu_percent = v ] : v \in { x \in CpuValues : x > m.cpu_percent } }
    \cup { [ m EXCEPT !.memory_percent = v ] :
             v \in { x \in MemoryValues : x > m.memory_percent } }
    \cup { [ m EXCEPT !.disk_percent = v ] :
             v \in { x \in DiskValues : x > m.disk_percent } }
    \cup (IF m.temperature = None THEN { }
          ELSE { [ m EXCEPT !.temperature = t ] :
                   t \in { x \in TemperatureValues \ {None} :
                             x.float > m.temperature.float } })

\* C12: a snapshot that is strictly worse in one dimension and equal in the
\* others scores no higher.
C12_ScoringMonotone ==
    Scored => \A w \in Worse(metrics) : get_system_health_score(w).score <= health.score

\* C12 witness: a snapshot has been scored of which a worse one exists in
\* every dimension, with a strictly lower score.
C12_Witness ==
    /\ Scored
    /\ metrics.cpu_percent = 61 /\ metrics.temperature = Float(80)
    /\ \E w \in Worse(metrics) :
          w.cpu_percent = 85 /\ get_system_health_score(w).score < health.score
    /\ \E w \in Worse(metrics) :
          w.temperature = Float(85) /\ get_system_health_score(w).score < health.score
    /\ \E w \in Worse(metrics) : w.memory_percent # metrics.memory_percent
    /\ \E w \in Worse(metrics) : w.disk_percent # metrics.disk_percent

\* C13: a snapshot without temperature is scored without error and without
\* temperature penalty: the assessment has neither the issue High CPU
\* temperature nor the cooling recommendation, and the score is that of
\* cpu, memory and disk alone.
C13_AbsentTemperature ==
    (Scored /\ metrics.temperature = None) =>
        /\ error = "none"
        /\ "High CPU temperature" \notin Range(health.issues)
        /\ "Check cooling system and clean dust from fans"
              \notin Range(health.recommendations)
        /\ \A t \in TemperatureValues :
              get_system_health_score([ metrics EXCEPT !.temperature = t ]).score
                 <= health.score
        /\ LET m == metrics
               cpu == IF m.cpu_percent > 80 THEN 20
                      ELSE IF m.cpu_percent > 60 THEN 10 ELSE 0
               memory == IF m.memory_percent > 90 THEN 25
                         ELSE IF m.memory_percent > 80 THEN 15 ELSE 0
               disk == IF m.disk_percent > 95 THEN 30
                       ELSE IF m.disk_percent > 85 THEN 15 ELSE 0
           IN  health.score = 100 - (cpu + memory + disk)

\* C13 witness: a snapshot without temperature and with an issue of every
\* other category has been scored.
C13_Witness ==
    /\ Scored /\ metrics.temperature = None
    /\ Len(health.issues) = 3 /\ Len(health.recommendations) = 3

\* the reads of this run that returned a snapshot, in order
GoodTicks == SelectSeq(ticks, LAMBDA t : t.read # None)

\* every read of this run that returned, returned a snapshot
ProviderSucceeded == \A i \in 1..Len(ticks) : ticks[i].read # None

\* the timestamps of the buffer are strictly increasing
TimestampsIncrease ==
    \A i, j \in 1..Len(data_points) :
        i < j => data_points[i].timestamp < data_points[j].timestamp

\* C14: a tick whose read fails appends nothing and does not end the run:
\* every read that returned is followed by its sleep, the run returns only
\* when the duration has elapsed or a cancel signal was sent, and the buffer
\* holds exactly one data point per successful read, in read order.
C14_FailedReadIsSkipped ==
    /\ Len(data_points) = Len(GoodTicks)
    /\ \A i \in 1..Len(GoodTicks) :
          /\ data_points[i].timestamp = GoodTicks[i].at
          /\ data_points[i].cpu_percent = GoodTicks[i].read.cpu_percent
          /\ data_points[i].memory_percent = GoodTicks[i].read.memory_percent
          /\ data_points[i].disk_percent = GoodTicks[i].read.disk_percent
          /\ data_points[i].temperature = GoodTicks[i].read.temperature
    /\ pc = "check" => sleeps = Len(ticks)
    /\ pc = "returned" => cancel.during # "none" \/ now - start_time >= duration

\* C14 witness: a run that was not cancelled has returned after a failed
\* read followed by a successful one, with the one data point of the latter.
C14_Witness ==
    /\ pc = "returned" /\ cancel.during = "none"
    /\ Len(ticks) = 2 /\ ticks[1].read = None /\ ticks[2].read # None
    /\ Len(data_points) = 1

\* C15: with a provider that always succeeds, a run cancelled before any tick
\* (a cancel signalled before the call was entered included) returns an empty
\* buffer, and a run cancelled after k ticks returns k data points with
\* strictly increasing timestamps.
C15_CancelReturnsTicksTaken ==
    (pc = "returned" /\ ProviderSucceeded /\ (cancel.before \/ cancel.during # "none")) =>
        /\ cancel.before => data_points = << >>
        /\ (cancel.during # "none" /\ cancel.started = 0) => data_points = << >>
        /\ Len(data_points) = Len(ticks)
        /\ TimestampsIncrease

\* C16: a cancel signal (user interrupt or cleared flag) that arrives while a
\* tick is in progress lets the read and the append of that tick complete,
\* and no further read is started.
C16_CancelNeverPreempts ==
    (cancel.during # "none" /\ cancel.at \in { "read", "sleep" }) =>
        /\ started = cancel.started
        /\ pc = "returned" => Len(ticks) = started

\* C17: monitor_system with duration = 0 and an interval >= 0 makes no
\* provider read and no sleep, returns an empty buffer and raises nothing.
C17_ZeroDuration ==
    (pc # "idle" /\ duration = 0 /\ interval >= 0) =>
        /\ pc \in { "check", "returned" }
        /\ started = 0 /\ ticks = << >> /\ sleeps = 0
        /\ data_points = << >>
        /\ error = "none"

\* C17 witness: monitor_system(0, 5) has returned without a cancel signal.
C17_Witness ==
    /\ pc = "returned" /\ duration = 0 /\ interval = 5
    /\ cancel.during = "none" /\ data_points = << >>

\* a call monitor_system(12, 5) has returned, was sent no cancel signal, and
\* every read succeeded
Scenario12By5 ==
    /\ pc = "returned" /\ duration = 12 /\ interval = 5
    /\ cancel.during = "none" /\ ProviderSucceeded

\* C18, as stated: monitor_system(12, 5) returns 3 data points, of ticks
\* taken at t = 0, 5 and 10.
C18_AsStated ==
    Scenario12By5 =>
        /\ Len(data_points) = 3
        /\ Len(ticks) = 3
        /\ ticks[1].from = 0 /\ ticks[2].from = 5 /\ ticks[3].from = 10

\* C18, amended: monitor_system(12, 5) returns 2 data points, of ticks
\* started at t = 0 and at t >= 6: a successful read takes a second or more
\* before the sleep of 5 seconds.
C18_TwoDataPoints ==
    Scenario12By5 =>
        /\ Len(data_points) = 2
        /\ Len(ticks) = 2
        /\ ticks[1].from = 0 /\ ticks[2].from >= 6 /\ ticks[2].from < 12
        /\ now - start_time >= 12

\* C18 witness: such a call has returned.
C18_Witness ==
    Scenario12By5 /\ Len(data_points) = 2

\* C19: a call with duration < 0 or interval < 0 is rejected with an error
\* before the loop starts: it ends raising, with no provider read, no data
\* point and the monitor not left running.
C19_NegativeArgsRejected ==
    (pc \in { "returned", "raised" } /\ (duration < 0 \/ interval < 0)) =>
        /\ pc = "raised"
        /\ started = 0
        /\ data_points = << >>
        /\ ~ monitoring

\* C20: no exception leaves a call of the core.
C20_NoExceptionEscapes ==
    pc # "raised"

\* the keys of a data point
DataPointKeys ==
    { "timestamp", "cpu_percent", "memory_percent", "disk_percent", "temperature" }

\* C21: in every state of a run the buffer is strictly ordered by capture
\* time, and every entry has the five keys of a data point, the four metric
\* values being those of the one snapshot whose read returned at the entry's
\* timestamp.
C21_OrderedAndFullyFormed ==
    /\ TimestampsIncrease
    /\ \A i \in 1..Len(data_points) :
          /\ DOMAIN data_points[i] = DataPointKeys
          /\ \E k \in 1..Len(ticks) :
                /\ ticks[k].read # None
                /\ ticks[k].at = data_points[i].timestamp
                /\ data_points[i] = DataPoint(ticks[k].read, ticks[k].at)

\* C21 witness: a run is under way whose buffer holds two data points of
\* different snapshots, one of them without temperature.
C21_Witness ==
    /\ pc = "sleep" /\ Len(data_points) = 2
    /\ data_points[1].temperature = None /\ data_points[2].temperature # None
    /\ data_points[1].cpu_percent # data_points[2].cpu_percent

\* a step that enters monitor_system
RunEntered == pc \in { "idle", "returned" } /\ pc' = "check"

\* the call has returned its buffer
RunReturned == pc = "returned"

\* C22: a call ends in one of two ways, its duration elapsed or a cancel
\* signal sent, and in no other; in both it returns the buffer accumulated
\* so far, a list of data points, and starts no tick afterwards.
C22_TwoTerminalStates ==
    /\ [](pc # "raised")
    /\ [](RunReturned =>
            /\ cancel.during # "none" \/ now - start_time >= duration
            /\ Len(data_points) = Len(GoodTicks)
            /\ \A i \in 1..Len(data_points) : DOMAIN data_points[i] = DataPointKeys)
    /\ [][(RunReturned /\ RunReturned') =>
             UNCHANGED << data_points, ticks, started, sleeps >>]_vars

\* C23: within one call the ticks follow one another: at most one read is in
\* progress; while it is, every earlier read has returned and has been
\* followed by its sleep; and a read starts no earlier than one interval
\* after the read before it returned.
C23_TicksAreSequential ==
    /\ started - Len(ticks) \in { 0, 1 }
    /\ pc = "read" => started = Len(ticks) + 1 /\ sleeps = Len(ticks)
    /\ pc \in { "check", "sleep" } => started = Len(ticks)
    /\ pc = "sleep" => sleeps = Len(ticks) - 1
    /\ \A n \in 1..Len(ticks) - 1 :
          /\ ticks[n].from <= ticks[n].at
          /\ ticks[n + 1].from >= ticks[n].at + interval

\* C23 witness: the third read of a call with interval 5 is in progress, the
\* second having started 5 seconds after the first returned.
C23_Witness ==
    /\ pc = "read" /\ interval = 5 /\ Len(ticks) = 2 /\ started = 3
    /\ ticks[2].from = ticks[1].at + 5
    /\ now = ticks[2].at + 5

\* C24: a provider read is started only by the check at the top of an
\* iteration, and only when that check finds self.monitoring set and the
\* elapsed time strictly less than duration; no read starts at an elapsed
\* time >= duration; and the sleep after the last tick has been made when
\* the loop is left, so a call may return later than duration.
C24_TickOnlyWhileConditionHolds ==
    /\ [][started' # started =>
             \/ /\ pc = "check" /\ pc' = "read" /\ started' = started + 1
                /\ monitoring /\ now - start_time < duration
             \/ pc \in { "idle", "returned" } /\ pc' = "check" /\ started' = 0]_vars
    /\ [](pc = "read" => now - start_time < duration)
    /\ [](\A i \in 1..Len(ticks) : ticks[i].from - start_time < duration)
    /\ [](pc = "check" => sleeps = Len(ticks))

\* C24 witness: a call that was sent no cancel signal has returned later
\* than its duration, its last read having started before the duration
\* elapsed and its last sleep having been made.
C24_Witness ==
    /\ pc = "returned" /\ cancel.during = "none" /\ duration = 3 /\ interval = 1
    /\ Len(ticks) = 2 /\ sleeps = 2
    /\ ticks[2].from - start_time < duration
    /\ now - start_time > duration

\* C25: every step of a call leaves the buffer as it is or appends one data
\* point at its end; only the step that completes a read appends; and the
\* buffer never holds more data points than reads have returned.
C25_BufferAppendOnly ==
    /\ [][~ RunEntered =>
             \/ data_points' = data_points
             \/ /\ Len(data_points') = Len(data_points) + 1
                /\ SubSeq(data_points', 1, Len(data_points)) = data_points
                /\ pc = "read" /\ Len(ticks') = Len(ticks) + 1]_vars
    /\ [](Len(data_points) <= Len(ticks))

\* C25 witness: a third read has returned a snapshot after a failed read and
\* a successful one, and the buffer holds two data points.
C25_Witness ==
    /\ pc = "sleep" /\ Len(ticks) = 3 /\ Len(data_points) = 2
    /\ ticks[1].read = None /\ ticks[2].read # None /\ ticks[3].read # None
    /\ data_points[1].timestamp = ticks[2].at

\* C30: for every obtained snapshot the score before the clamp is a multiple
\* of 5 between 5 and 100, so max(0, score) returns it unchanged, and the
\* status Critical goes only with the scores 5, 10 and 15.
C30_ClampNeverActs ==
    Scored =>
        LET score == ApplyRules(metrics).score
        IN  /\ 5 <= score /\ score <= 100
            /\ score % 5 = 0
            /\ health.score = score
            /\ Max(0, score) = score
            /\ health.status = "Critical" => health.score \in { 5, 10, 15 }

\* C30 witness: a snapshot on which every rule fires with its larger
\* penalty has been scored 100 - 95 = 5, Critical.
C30_Witness ==
    /\ Scored
    /\ ApplyRules(metrics).score = 5
    /\ health.score = 5 /\ health.status = "Critical"
    /\ Len(health.issues) = 4

\* a monitor_system call is in progress
RunInProgress == pc \in { "check", "read", "sleep" }

\* C28: self.monitoring is set only while a monitor_system call is in
\* progress: it is clear from construction to the first call and after
\* every exit of a call, by elapsed duration, by user interrupt or by an
\* exception raised inside the loop.
C28_FlagOnlyWhileRunning ==
    monitoring => RunInProgress

\* C27: a call with duration >= 0 and interval >= 0 returns, provided the
\* thread keeps running, every provider read returns and the clock advances
\* while it does; interval = 0 included.
C27_RunTerminates ==
    (RunInProgress /\ duration >= 0 /\ interval >= 0) ~> RunReturned

\* C27 witness: a call with interval 0 that was sent no cancel signal has
\* returned after three reads, when its duration of 3 seconds had elapsed.
C27_Witness ==
    /\ pc = "returned" /\ duration = 3 /\ interval = 0
    /\ cancel.during = "none"
    /\ Len(ticks) = 3 /\ sleeps = 3
    /\ now - start_time >= 3

\* C26: every call works on a list of its own: at entry the list is empty,
\* at every moment it holds exactly the data points of the successful
\* reads of this call, and no step of a later call adds to or changes the
\* list an earlier call returned.
C26_FreshBufferPerRun ==
    /\ [][RunEntered =>
             /\ data_points' = << >>
             /\ pc = "returned" => previous' = data_points]_vars
    /\ [][~ RunEntered => previous' = previous]_vars
    /\ [](/\ Len(data_points) = Len(GoodTicks)
          /\ \A i \in 1..Len(data_points) :
                data_points[i] = DataPoint(GoodTicks[i].read, GoodTicks[i].at))

\* C26 witness: a call has returned one data point after being cancelled,
\* the call before it having returned two data points of another snapshot,
\* which the caller still holds.
C26_Witness ==
    /\ pc = "returned" /\ cancel.during # "none"
    /\ Len(previous) = 2 /\ Len(data_points) = 1
    /\ previous[1].cpu_percent # data_points[1].cpu_percent
    /\ previous[2].cpu_percent # data_points[1].cpu_percent

\* C29, for a call that overlaps with a second call on the same
\* SystemMonitor: the call is not shortened or cancelled by the other (it
\* returns only when its duration has elapsed or it was sent a cancel
\* signal), and it is not un-cancelled by the other (it starts no read
\* after a cancel signal was sent to it).
C29_RunsDoNotInterfere ==
    /\ (RunReturned /\ cancel.during = "none") => now - start_time >= duration
    /\ cancel.during # "none" => started = cancel.started

====
